---- MODULE Spec2Model ----
(***************************************************************************)
(* A model of project/models.py: Client, Package, AirCompany and Report.   *)
(*                                                                         *)
(* Client and Package objects have an identity of their own (the lists of  *)
(* a company hold references to them), so they are modelled as identifiers *)
(* with attribute functions.  The attributes the code never assigns after  *)
(* construction (Client.name, Package.origin, Package.destination,         *)
(* Package.client) are constant functions; the ones it assigns             *)
(* (Package._is_transported, Package._ship_date, AirCompany._clients,      *)
(* AirCompany._packages) are variables.                                    *)
(*                                                                         *)
(* Ship dates are Python strings.  They are modelled as sequences of       *)
(* one-character strings so that parsing (datetime.strptime) and ordering  *)
(* (str.__le__, str.__lt__) are computed character by character.           *)
(***************************************************************************)
EXTENDS Integers, Sequences, FiniteSets, TLC

VARIABLES clients, packages, is_transported, ship_date, last

vars == <<clients, packages, is_transported, ship_date, last>>

(***************************************************************************)
(* Bounds of the model.                                                    *)
(***************************************************************************)
\* add_client calls over all companies
MaxClients == 2

\* accepted transport_package calls over all companies
MaxPackages == 2

(***************************************************************************)
(* The objects of the model.                                               *)
(***************************************************************************)
Companies == {"company a", "company b"}

\* Client objects.  c1 and c2 are two distinct objects with the same name;
\* the name of c3 differs from theirs only by case.
Clients == {"c1", "c2", "c3"}

name == [c \in Clients |->
            CASE c = "c1" -> "client a"
              [] c = "c2" -> "client a"
              [] c = "c3" -> "Client A"]

\* Package objects, with the attributes given to Package.__init__.
Packages == {"p1", "p2", "p3"}

origin == [p \in Packages |->
            CASE p = "p1" -> "Miami"
              [] p = "p2" -> "Los Angeles"
              [] p = "p3" -> "Miami"]

destination == [p \in Packages |->
            CASE p = "p1" -> "New York"
              [] p = "p2" -> "Los Angeles"
              [] p = "p3" -> "miami"]

client == [p \in Packages |->
            CASE p = "p1" -> "c2"
              [] p = "p2" -> "c1"
              [] p = "p3" -> "c3"]

(***************************************************************************)
(* Strings as sequences of characters.                                     *)
(***************************************************************************)
Digits == {"0", "1", "2", "3", "4", "5", "6", "7", "8", "9"}

Chars == Digits \cup {"-", " ", "/"}

\* ord(ch): the code point of a character
Ord == [ch \in Chars |->
            CASE ch = " " -> 32
              [] ch = "-" -> 45
              [] ch = "/" -> 47
              [] ch = "0" -> 48
              [] ch = "1" -> 49
              [] ch = "2" -> 50
              [] ch = "3" -> 51
              [] ch = "4" -> 52
              [] ch = "5" -> 53
              [] ch = "6" -> 54
              [] ch = "7" -> 55
              [] ch = "8" -> 56
              [] ch = "9" -> 57]

\* int(ch) of a decimal digit
DigitVal(ch) == Ord[ch] - Ord["0"]

\* The date strings the callers pass.
D_2024_02_01 == <<"2", "0", "2", "4", "-", "0", "2", "-", "0", "1">>

D_2024_02_30 == <<"2", "0", "2", "4", "-", "0", "2", "-", "3", "0">>

D_2024_03_01 == <<"2", "0", "2", "4", "-", "0", "3", "-", "0", "1">>

D_2024_2_1 == <<"2", "0", "2", "4", "-", "2", "-", "1">>

D_2024_02_29 == <<"2", "0", "2", "4", "-", "0", "2", "-", "2", "9">>

D_2023_02_29 == <<"2", "0", "2", "3", "-", "0", "2", "-", "2", "9">>

D_2023_02_28 == <<"2", "0", "2", "3", "-", "0", "2", "-", "2", "8">>

D_1900_02_29 == <<"1", "9", "0", "0", "-", "0", "2", "-", "2", "9">>

D_2000_02_29 == <<"2", "0", "0", "0", "-", "0", "2", "-", "2", "9">>

D_2024_04_30 == <<"2", "0", "2", "4", "-", "0", "4", "-", "3", "0">>

D_2024_04_31 == <<"2", "0", "2", "4", "-", "0", "4", "-", "3", "1">>

D_2025_01_01 == <<"2", "0", "2", "5", "-", "0", "1", "-", "0", "1">>

\* ship_date arguments of transport_package
ShipDates == {D_2024_02_01, D_2024_02_30, D_2024_2_1}

\* ship_date arguments of generate_report
ReportDates == {D_2024_02_01, D_2024_2_1}

\* start_ship_date and end_ship_date arguments of generate_report_by_dates
RangeDates == {D_2024_02_01, D_2024_2_1}

\* start_ship_date and end_ship_date arguments that reach beyond every ship
\* date
WideRangeDates == RangeDates \cup {D_2024_03_01, D_2025_01_01}

\* ship_date arguments of transport_package at the ends of months
CalendarDates ==
    {D_2024_02_29, D_2024_02_30, D_2023_02_28, D_2023_02_29, D_1900_02_29,
     D_2000_02_29, D_2024_04_30, D_2024_04_31}

\* every string the model compares or parses; "" is the ship_date of a new
\* Package
Strings ==
    ShipDates \cup ReportDates \cup WideRangeDates \cup CalendarDates
        \cup {<<>>}

(***************************************************************************)
(* Python's comparison of two str objects: the first position where they   *)
(* differ decides by code point; when one is a prefix of the other, the    *)
(* shorter is the smaller.                                                 *)
(***************************************************************************)
RECURSIVE StrCompare(_, _)
\* -1, 0 or 1 as a < b, a = b or a > b
StrCompare(a, b) ==
    IF a = <<>> /\ b = <<>> THEN 0
    ELSE IF a = <<>> THEN -1
    ELSE IF b = <<>> THEN 1
    ELSE IF Ord[Head(a)] < Ord[Head(b)] THEN -1
    ELSE IF Ord[Head(a)] > Ord[Head(b)] THEN 1
    ELSE StrCompare(Tail(a), Tail(b))

\* StrCompare on the strings of the model, computed once
StrCompareOf == [a \in Strings, b \in Strings |-> StrCompare(a, b)]

\* a <= b on str
StrLe(a, b) == StrCompareOf[a, b] <= 0

\* a < b on str
StrLt(a, b) == StrCompareOf[a, b] < 0

(***************************************************************************)
(* datetime.strptime(ship_date, "%Y-%m-%d").  The format is compiled to    *)
(* the regular expression                                                  *)
(*   (?P<Y>\d\d\d\d)-(?P<m>1[0-2]|0[1-9]|[1-9])-                            *)
(*   (?P<d>3[01]|[12]\d|0[1-9]|[1-9]| [1-9])                               *)
(* which is matched at the start of the string; the whole string must be   *)
(* consumed, and the year, month and day must make a date of the           *)
(* proleptic Gregorian calendar with a year of at least 1.  Any failure    *)
(* is a ValueError.                                                        *)
(***************************************************************************)
At(s, i) == IF i \in 1..Len(s) THEN s[i] ELSE "end"

\* the number of characters group Y matches at position i, 0 for no match
YearLen(s, i) ==
    IF \A k \in 0..3 : At(s, i + k) \in Digits THEN 4 ELSE 0

\* the number of characters group m matches at position i, 0 for no match.
\* The alternatives are tried in order; an earlier alternative that matches
\* is never given up, because the "-" that has to follow the one-character
\* alternative is no second character of a two-character one.
MonthLen(s, i) ==
    IF At(s, i) = "1" /\ At(s, i + 1) \in {"0", "1", "2"} THEN 2
    ELSE IF At(s, i) = "0" /\ At(s, i + 1) \in Digits \ {"0"} THEN 2
    ELSE IF At(s, i) \in Digits \ {"0"} THEN 1
    ELSE 0

\* the number of characters group d matches at position i, 0 for no match
DayLen(s, i) ==
    IF At(s, i) = "3" /\ At(s, i + 1) \in {"0", "1"} THEN 2
    ELSE IF At(s, i) \in {"1", "2"} /\ At(s, i + 1) \in Digits THEN 2
    ELSE IF At(s, i) = "0" /\ At(s, i + 1) \in Digits \ {"0"} THEN 2
    ELSE IF At(s, i) \in Digits \ {"0"} THEN 1
    ELSE IF At(s, i) = " " /\ At(s, i + 1) \in Digits \ {"0"} THEN 2
    ELSE 0

RECURSIVE ToInt(_)
\* int(s) of a string of digits and spaces (spaces are stripped)
ToInt(s) ==
    IF s = <<>> THEN 0
    ELSE IF s[Len(s)] = " " THEN ToInt(SubSeq(s, 1, Len(s) - 1))
    ELSE 10 * ToInt(SubSeq(s, 1, Len(s) - 1)) + DigitVal(s[Len(s)])

\* IsLeap as it would be if every fourth year were a leap year
IsLeap_every_fourth(y) == y % 4 = 0

\* calendar.isleap
IsLeap(y) == y % 4 = 0 /\ (y % 100 # 0 \/ y % 400 = 0)

\* the number of days of a month of a year
DaysInMonth(y, m) ==
    IF m = 2 THEN (IF IsLeap(y) THEN 29 ELSE 28)
    ELSE IF m \in {4, 6, 9, 11} THEN 30
    ELSE 31

\* TRUE when strptime returns a datetime, FALSE when it raises ValueError
Strptime(s) ==
    LET yl == YearLen(s, 1)
        ml == MonthLen(s, 6)
        dl == DayLen(s, 7 + ml)
    IN  /\ yl = 4
        /\ At(s, 5) = "-"
        /\ ml > 0
        /\ At(s, 6 + ml) = "-"
        /\ dl > 0
        /\ 6 + ml + dl = Len(s)
        /\ LET y == ToInt(SubSeq(s, 1, 4))
               m == ToInt(SubSeq(s, 6, 5 + ml))
               d == ToInt(SubSeq(s, 7 + ml, 6 + ml + dl))
           IN  /\ y >= 1
               /\ d <= DaysInMonth(y, m)

\* the year, month and day of the datetime strptime returns for a string it
\* accepts
StrptimeDate(s) ==
    LET ml == MonthLen(s, 6)
        dl == DayLen(s, 7 + ml)
    IN  <<ToInt(SubSeq(s, 1, 4)),
          ToInt(SubSeq(s, 6, 5 + ml)),
          ToInt(SubSeq(s, 7 + ml, 6 + ml + dl))>>

(***************************************************************************)
(* Package                                                                 *)
(***************************************************************************)
\* validate_origin_destination as it would be if the comparison were left out
validate_origin_destination_skipped(p) == TRUE

\* Package.validate_origin_destination
validate_origin_destination(p) == origin[p] # destination[p]

\* Strptime on the strings of the model, computed once
StrptimeOf == [s \in Strings |-> Strptime(s)]

\* Package.validate_ship_date
validate_ship_date(d) == StrptimeOf[d]

(***************************************************************************)
(* AirCompany                                                              *)
(***************************************************************************)
\* the names of a roster: [c.name for c in self._clients]
client_names(co) == [i \in DOMAIN clients[co] |-> name[clients[co][i]]]

\* validate_can_transport_package as it would be if it looked for the Client
\* object in the roster
validate_can_transport_package_by_identity(co, p) ==
    \E i \in DOMAIN clients[co] : clients[co][i] = client[p]

\* AirCompany.validate_can_transport_package
validate_can_transport_package(co, p) ==
    \E i \in DOMAIN client_names(co) : client_names(co)[i] = name[client[p]]

\* AirCompany.get_packages
get_packages(co) == packages[co]

\* the number of entries of all the companies' rosters
TotalClients ==
    LET RECURSIVE Sum(_)
        Sum(S) == IF S = {} THEN 0
                  ELSE LET co == CHOOSE x \in S : TRUE
                       IN  Len(clients[co]) + Sum(S \ {co})
    IN  Sum(Companies)

\* the number of entries of all the companies' packages lists
TotalPackages ==
    LET RECURSIVE Sum(_)
        Sum(S) == IF S = {} THEN 0
                  ELSE LET co == CHOOSE x \in S : TRUE
                       IN  Len(packages[co]) + Sum(S \ {co})
    IN  Sum(Companies)

\* The record of the last call: the operation, the company it was called on,
\* its arguments, how it ended ("returned" or "raised"), the message of the
\* exception it raised and the value it returned.
Call(op, co, obj, dates, outcome, msg, result) ==
    [op |-> op, company |-> co, obj |-> obj, dates |-> dates,
     outcome |-> outcome, msg |-> msg, result |-> result]

Init ==
    /\ clients = [co \in Companies |-> <<>>]
    /\ packages = [co \in Companies |-> <<>>]
    /\ is_transported = [p \in Packages |-> FALSE]
    /\ ship_date = [p \in Packages |-> <<>>]
    /\ last = Call("init", "none", "none", <<>>, "returned", "", <<>>)

\* add_client as it would be if it skipped a name the roster has already
add_client_unless_named(co, c) ==
    /\ TotalClients < MaxClients
    /\ clients' = [clients EXCEPT
                        ![co] = IF \E i \in DOMAIN @ : name[@[i]] = name[c]
                                THEN @ ELSE Append(@, c)]
    /\ UNCHANGED <<packages, is_transported, ship_date>>
    /\ last' = Call("add_client", co, c, <<>>, "returned", "", <<>>)

\* AirCompany.add_client
add_client(co, c) ==
    /\ TotalClients < MaxClients
    /\ clients' = [clients EXCEPT ![co] = Append(@, c)]
    /\ UNCHANGED <<packages, is_transported, ship_date>>
    /\ last' = Call("add_client", co, c, <<>>, "returned", "", <<>>)

\* raise_Exception as it would be if the package were marked before the
\* checks
raise_Exception_after_marking(co, p, d, msg) ==
    /\ is_transported' = [is_transported EXCEPT ![p] = TRUE]
    /\ UNCHANGED <<clients, packages, ship_date>>
    /\ last' = Call("transport_package", co, p, <<d>>, "raised", msg, <<>>)

\* raise Exception(msg) in transport_package: the call ends there
raise_Exception(co, p, d, msg) ==
    /\ UNCHANGED <<clients, packages, is_transported, ship_date>>
    /\ last' = Call("transport_package", co, p, <<d>>, "raised", msg, <<>>)

\* accept as it would be if the package were inserted at the front of the list
accept_at_front(co, p, d) ==
    /\ TotalPackages < MaxPackages
    /\ is_transported' = [is_transported EXCEPT ![p] = TRUE]
    /\ ship_date' = [ship_date EXCEPT ![p] = d]
    /\ packages' = [packages EXCEPT ![co] = <<p>> \o @]
    /\ UNCHANGED clients
    /\ last' = Call("transport_package", co, p, <<d>>, "returned", "", <<>>)

\* accept as it would be if the ship date were not recorded
accept_without_date(co, p, d) ==
    /\ TotalPackages < MaxPackages
    /\ is_transported' = [is_transported EXCEPT ![p] = TRUE]
    /\ packages' = [packages EXCEPT ![co] = Append(@, p)]
    /\ UNCHANGED <<clients, ship_date>>
    /\ last' = Call("transport_package", co, p, <<d>>, "returned", "", <<>>)

\* the branch of transport_package that accepts the package
accept(co, p, d) ==
    /\ TotalPackages < MaxPackages
    /\ is_transported' = [is_transported EXCEPT ![p] = TRUE]
    /\ ship_date' = [ship_date EXCEPT ![p] = d]
    /\ packages' = [packages EXCEPT ![co] = Append(@, p)]
    /\ UNCHANGED clients
    /\ last' = Call("transport_package", co, p, <<d>>, "returned", "", <<>>)

\* reject as it would be if the date were tested before the combination
reject_date_first(co, p, d, is_valid_ship_date, can_transport_package) ==
    IF ~is_valid_ship_date
    THEN raise_Exception(co, p, d, "Invalid Shipping Date")
    ELSE IF ~is_valid_ship_date /\ ~can_transport_package
    THEN raise_Exception(co, p, d,
            "Invalid Shipping date and client: " \o name[client[p]]
                \o " is not a Client")
    ELSE IF ~can_transport_package
    THEN raise_Exception(co, p, d,
            "Client: " \o name[client[p]] \o " is not a Client")
    ELSE raise_Exception(co, p, d, "Origin and destination are the same.")

\* reject as it would be if the origin and destination were tested first
reject_same_first(co, p, d, is_valid_ship_date, can_transport_package) ==
    IF ~validate_origin_destination(p)
    THEN raise_Exception(co, p, d, "Origin and destination are the same.")
    ELSE IF ~is_valid_ship_date /\ ~can_transport_package
    THEN raise_Exception(co, p, d,
            "Invalid Shipping date and client: " \o name[client[p]]
                \o " is not a Client")
    ELSE IF ~is_valid_ship_date
    THEN raise_Exception(co, p, d, "Invalid Shipping Date")
    ELSE raise_Exception(co, p, d,
            "Client: " \o name[client[p]] \o " is not a Client")

\* the else branch of transport_package; when no condition of the chain
\* holds, the call returns None
reject(co, p, d, is_valid_ship_date, can_transport_package) ==
    IF ~is_valid_ship_date /\ ~can_transport_package
    THEN raise_Exception(co, p, d,
            "Invalid Shipping date and client: " \o name[client[p]]
                \o " is not a Client")
    ELSE IF ~is_valid_ship_date
    THEN raise_Exception(co, p, d, "Invalid Shipping Date")
    ELSE IF ~can_transport_package
    THEN raise_Exception(co, p, d,
            "Client: " \o name[client[p]] \o " is not a Client")
    ELSE IF ~validate_origin_destination(p)
    THEN raise_Exception(co, p, d, "Origin and destination are the same.")
    ELSE /\ UNCHANGED <<clients, packages, is_transported, ship_date>>
         /\ last' = Call("transport_package", co, p, <<d>>, "returned", "", <<>>)

\* AirCompany.transport_package
transport_package(co, p, d) ==
    LET is_valid_ship_date == validate_ship_date(d)
        can_transport_package == validate_can_transport_package(co, p)
    IN  IF /\ is_valid_ship_date
           /\ can_transport_package
           /\ validate_origin_destination(p)
        THEN accept(co, p, d)
        ELSE reject(co, p, d, is_valid_ship_date, can_transport_package)

(***************************************************************************)
(* Report                                                                  *)
(***************************************************************************)
\* generate_report as it would be if it counted the packages shipped up to
\* the date
generate_report_until(co, d) ==
    LET pkgs == get_packages(co)
        total_packages == Len(SelectSeq(pkgs, LAMBDA p : StrLe(ship_date[p], d)))
    IN  <<total_packages, total_packages * 10>>

\* Report.generate_report, the value it returns
generate_report(co, d) ==
    LET pkgs == get_packages(co)
        total_packages_per_date ==
            SelectSeq(pkgs, LAMBDA p : ship_date[p] = d)
        total_packages == Len(total_packages_per_date)
        total_collected == total_packages * 10
    IN  <<total_packages, total_collected>>

\* generate_report_by_dates as it would be if the end date were included
generate_report_by_dates_closed(co, start_ship_date, end_ship_date) ==
    LET pkgs == get_packages(co)
        total_packages ==
            Len(SelectSeq(pkgs, LAMBDA p : /\ StrLe(start_ship_date, ship_date[p])
                                           /\ StrLe(ship_date[p], end_ship_date)))
    IN  <<total_packages, total_packages * 10>>

\* generate_report_by_dates as it would be if the start date were excluded
generate_report_by_dates_open(co, start_ship_date, end_ship_date) ==
    LET pkgs == get_packages(co)
        total_packages ==
            Len(SelectSeq(pkgs, LAMBDA p : /\ StrLt(start_ship_date, ship_date[p])
                                           /\ StrLt(ship_date[p], end_ship_date)))
    IN  <<total_packages, total_packages * 10>>

\* Report.generate_report_by_dates, the value it returns
generate_report_by_dates(co, start_ship_date, end_ship_date) ==
    LET pkgs == get_packages(co)
        total_packages_per_date ==
            SelectSeq(pkgs, LAMBDA p : /\ StrLe(start_ship_date, ship_date[p])
                                       /\ StrLt(ship_date[p], end_ship_date))
        total_packages == Len(total_packages_per_date)
        total_collected == total_packages * 10
    IN  <<total_packages, total_collected>>

\* call_generate_report as it would be if the filtered list were stored back
\* in the company
call_generate_report_keeping(co, d) ==
    /\ packages' = [packages EXCEPT
                        ![co] = SelectSeq(@, LAMBDA p : ship_date[p] = d)]
    /\ UNCHANGED <<clients, is_transported, ship_date>>
    /\ last' = Call("generate_report", co, "none", <<d>>, "returned", "",
                    generate_report(co, d))

\* a call of Report(company).generate_report(ship_date)
call_generate_report(co, d) ==
    /\ UNCHANGED <<clients, packages, is_transported, ship_date>>
    /\ last' = Call("generate_report", co, "none", <<d>>, "returned", "",
                    generate_report(co, d))

\* a call of Report(company).generate_report_by_dates(start, end)
call_generate_report_by_dates(co, s, e) ==
    /\ UNCHANGED <<clients, packages, is_transported, ship_date>>
    /\ last' = Call("generate_report_by_dates", co, "none", <<s, e>>,
                    "returned", "", generate_report_by_dates(co, s, e))

Next ==
    \/ \E co \in Companies, c \in Clients : add_client(co, c)
    \/ \E co \in Companies, p \in Packages, d \in ShipDates :
            transport_package(co, p, d)
    \/ \E co \in Companies, d \in ReportDates : call_generate_report(co, d)
    \/ \E co \in Companies, s \in RangeDates, e \in RangeDates :
            call_generate_report_by_dates(co, s, e)

Spec == Init /\ [][Next]_vars

\* The calls of one company with ship dates at the ends of months.
NextDates ==
    \/ \E c \in Clients : add_client("company a", c)
    \/ \E p \in Packages, d \in CalendarDates :
            transport_package("company a", p, d)

SpecDates == Init /\ [][NextDates]_vars

\* The calls of one company with report ranges that reach beyond every ship
\* date.
NextRanges ==
    \/ \E c \in Clients : add_client("company a", c)
    \/ \E p \in Packages, d \in ShipDates :
            transport_package("company a", p, d)
    \/ \E d \in ReportDates : call_generate_report("company a", d)
    \/ \E s \in WideRangeDates, e \in WideRangeDates :
            call_generate_report_by_dates("company a", s, e)

SpecRanges == Init /\ [][NextRanges]_vars

(***************************************************************************)
(* Vocabulary of the properties.                                           *)
(***************************************************************************)
\* the number of entries of a list that are the object x
Occurrences(x, list) == Cardinality({i \in DOMAIN list : list[i] = x})

\* the names that occur in the roster of a company
RosterNames(co) == {name[clients[co][i]] : i \in DOMAIN clients[co]}

\* the Client objects that occur in the roster of a company
RosterObjects(co) == {clients[co][i] : i \in DOMAIN clients[co]}

\* a is before b in the lexicographic order of strings: at the first
\* position where they differ a has the smaller character, or a is a proper
\* prefix of b
LexLessChars(a, b) ==
    \E i \in 1..(Len(b)) :
        /\ i <= Len(a) + 1
        /\ \A k \in 1..(i - 1) : a[k] = b[k]
        /\ (i = Len(a) + 1 \/ Ord[a[i]] < Ord[b[i]])

\* LexLessChars on the strings of the model, computed once
LexLessOf == [a \in Strings, b \in Strings |-> LexLessChars(a, b)]

LexLess(a, b) == LexLessOf[a, b]

LexLessEq(a, b) == a = b \/ LexLess(a, b)

\* the messages of the four errors
MsgDateAndClient(p) ==
    "Invalid Shipping date and client: " \o name[client[p]] \o " is not a Client"

MsgDate == "Invalid Shipping Date"

MsgClient(p) == "Client: " \o name[client[p]] \o " is not a Client"

MsgSame == "Origin and destination are the same."

\* the entries of a company's packages list whose ship_date is d
EntriesOn(co, d) == {i \in DOMAIN packages[co] : ship_date[packages[co][i]] = d}

\* the entries of a company's packages list whose ship_date is in [s, e)
EntriesBetween(co, s, e) ==
    {i \in DOMAIN packages[co] :
        /\ LexLessEq(s, ship_date[packages[co][i]])
        /\ LexLess(ship_date[packages[co][i]], e)}

\* the dates of CalendarDates as year, month and day
CalendarCases ==
    {[s |-> D_2024_02_29, y |-> 2024, m |-> 2, d |-> 29],
     [s |-> D_2024_02_30, y |-> 2024, m |-> 2, d |-> 30],
     [s |-> D_2023_02_28, y |-> 2023, m |-> 2, d |-> 28],
     [s |-> D_2023_02_29, y |-> 2023, m |-> 2, d |-> 29],
     [s |-> D_1900_02_29, y |-> 1900, m |-> 2, d |-> 29],
     [s |-> D_2000_02_29, y |-> 2000, m |-> 2, d |-> 29],
     [s |-> D_2024_04_30, y |-> 2024, m |-> 4, d |-> 30],
     [s |-> D_2024_04_31, y |-> 2024, m |-> 4, d |-> 31]}

\* the length of a month in the Gregorian calendar: February has 29 days in
\* the years divisible by 4, except the century years not divisible by 400
GregorianDays(y, m) ==
    CASE m = 2 /\ y % 400 = 0 -> 29
      [] m = 2 /\ y % 400 # 0 /\ y % 100 = 0 -> 28
      [] m = 2 /\ y % 100 # 0 /\ y % 4 = 0 -> 29
      [] m = 2 /\ y % 4 # 0 -> 28
      [] m \in {4, 6, 9, 11} -> 30
      [] OTHER -> 31

\* the date string of CalendarDates names a day that exists
CalendarValid(s) ==
    \E c \in CalendarCases : c.s = s /\ c.d <= GregorianDays(c.y, c.m)

\* list a is the beginning of list b
IsPrefix(a, b) == Len(a) <= Len(b) /\ SubSeq(b, 1, Len(a)) = a

\* the string has the form YYYY-MM-DD: ten characters, digits but for the
\* two "-"
IsFixedWidth(s) ==
    /\ Len(s) = 10
    /\ \A i \in {1, 2, 3, 4, 6, 7, 9, 10} : s[i] \in Digits
    /\ s[5] = "-"
    /\ s[8] = "-"

\* the day a is before the day b in the calendar
CalendarLess(a, b) ==
    \/ a[1] < b[1]
    \/ a[1] = b[1] /\ a[2] < b[2]
    \/ a[1] = b[1] /\ a[2] = b[2] /\ a[3] < b[3]

\* the entries of a company's packages list whose day is in [s, e)
EntriesInCalendarRange(co, s, e) ==
    {i \in DOMAIN packages[co] :
        LET day == StrptimeDate(ship_date[packages[co][i]])
        IN  /\ ~CalendarLess(day, StrptimeDate(s))
            /\ CalendarLess(day, StrptimeDate(e))}

\* the state every operation leaves alone unless it says otherwise
state == <<clients, packages, is_transported, ship_date>>

(***************************************************************************)
(* C1: for a package whose client is in the roster, whose origin differs   *)
(* from its destination, and a valid date D, transport_package returns     *)
(* without raising, and afterwards the package is transported, its         *)
(* ship_date is D and it occurs in the company's packages exactly once.    *)
(***************************************************************************)
C1_AcceptedExactlyOnce ==
    (/\ last.op = "transport_package"
     /\ name[client[last.obj]] \in RosterNames(last.company)
     /\ origin[last.obj] # destination[last.obj]
     /\ validate_ship_date(last.dates[1]))
    => /\ last.outcome = "returned"
       /\ is_transported[last.obj]
       /\ ship_date[last.obj] = last.dates[1]
       /\ Occurrences(last.obj, packages[last.company]) = 1

(***************************************************************************)
(* C2: a step sets is_transported, records a ship_date or appends to a     *)
(* packages list only if it is a transport_package call for which the      *)
(* date is valid, the name of the package's client is in the company's     *)
(* roster and the origin differs from the destination.                     *)
(***************************************************************************)
C2_AcceptOnlyIfAllHold ==
    [][(\/ is_transported' # is_transported
        \/ ship_date' # ship_date
        \/ packages' # packages)
       => /\ last'.op = "transport_package"
          /\ validate_ship_date(last'.dates[1])
          /\ name[client[last'.obj]] \in RosterNames(last'.company)
          /\ origin[last'.obj] # destination[last'.obj]]_vars

\* a package has just been accepted
C2_Witness ==
    /\ last.op = "transport_package"
    /\ last.outcome = "returned"
    /\ is_transported[last.obj]
    /\ Occurrences(last.obj, packages[last.company]) >= 1

(***************************************************************************)
(* C3: a transport_package call that raises changes nothing: no package    *)
(* field, no packages list and no roster.                                  *)
(***************************************************************************)
C3_FailureChangesNothing ==
    [][(last'.op = "transport_package" /\ last'.outcome = "raised")
       => UNCHANGED state]_vars

\* a package with origin = destination, a registered client and a valid date
\* was refused, and is neither transported nor in the packages list
C3_Witness ==
    /\ last.op = "transport_package"
    /\ last.outcome = "raised"
    /\ last.msg = MsgSame
    /\ origin[last.obj] = destination[last.obj]
    /\ ~is_transported[last.obj]
    /\ Occurrences(last.obj, packages[last.company]) = 0

C5_ReportCountsExactDate ==
    /\ \A co \in Companies, d \in ReportDates :
            generate_report(co, d) =
                <<Cardinality(EntriesOn(co, d)), Cardinality(EntriesOn(co, d)) * 10>>
    /\ last.op = "generate_report" =>
            /\ last.result[1] = Cardinality(EntriesOn(last.company, last.dates[1]))
            /\ last.result[2] = last.result[1] * 10

\* a report that counted one of two accepted packages
C5_Witness ==
    /\ last.op = "generate_report"
    /\ last.result = <<1, 10>>
    /\ Len(packages[last.company]) = 2

(***************************************************************************)
(* C6: generate_report_by_dates(S, E) returns (count, count * 10), where   *)
(* count is the number of entries of the packages list with                *)
(* S <= ship_date < E in the lexicographic order: S is included and E is   *)
(* excluded.                                                               *)
(***************************************************************************)
C6_RangeIsHalfOpen ==
    /\ \A co \in Companies, s \in WideRangeDates, e \in WideRangeDates :
            generate_report_by_dates(co, s, e) =
                <<Cardinality(EntriesBetween(co, s, e)),
                  Cardinality(EntriesBetween(co, s, e)) * 10>>
    /\ last.op = "generate_report_by_dates" =>
            /\ last.result[1] =
                  Cardinality(EntriesBetween(last.company, last.dates[1], last.dates[2]))
            /\ last.result[2] = last.result[1] * 10
            /\ (EntriesBetween(last.company, last.dates[1], last.dates[2]) = {}
                    => last.result = <<0, 0>>)

\* a range report that included a package shipped on S and excluded one
\* shipped on E
C6_Witness ==
    /\ last.op = "generate_report_by_dates"
    /\ last.result = <<1, 10>>
    /\ \E i, j \in DOMAIN packages[last.company] :
            /\ ship_date[packages[last.company][i]] = last.dates[1]
            /\ ship_date[packages[last.company][j]] = last.dates[2]

(***************************************************************************)
(* C7: a package is mutated once: is_transported goes from false to true   *)
(* only, and ship_date is set at that transition and never changes         *)
(* afterwards.                                                             *)
(***************************************************************************)
C7_MutatedOnce ==
    [][\A p \in Packages :
            /\ is_transported[p] => is_transported'[p]
            /\ ship_date'[p] # ship_date[p]
                    => (~is_transported[p] /\ is_transported'[p])]_vars

(***************************************************************************)
(* C8: the membership predicate holds exactly when some roster entry has   *)
(* the name of the package's client: the call raises one of the two client *)
(* errors exactly when no entry has that name, whichever Client objects    *)
(* the roster holds.                                                       *)
(***************************************************************************)
C8_MembershipByName ==
    last.op = "transport_package" =>
        ((last.outcome = "raised"
            /\ last.msg \in {MsgClient(last.obj), MsgDateAndClient(last.obj)})
         <=> name[client[last.obj]] \notin RosterNames(last.company))

\* a package was accepted whose Client object is not in the roster, which
\* holds another Client object of the same name
C8_Witness ==
    /\ last.op = "transport_package"
    /\ last.outcome = "returned"
    /\ client[last.obj] \notin RosterObjects(last.company)
    /\ name[client[last.obj]] \in RosterNames(last.company)

(***************************************************************************)
(* C9: add_client returns without raising, appends the client at the end   *)
(* of the company's roster whether or not its name is there already, and   *)
(* changes no other roster, no packages list and no package.               *)
(***************************************************************************)
C9_AddClientAppends ==
    [][last'.op = "add_client"
       => /\ last'.outcome = "returned"
          /\ clients' = [clients EXCEPT
                            ![last'.company] = Append(@, last'.obj)]
          /\ Len(clients'[last'.company]) = Len(clients[last'.company]) + 1
          /\ SubSeq(clients'[last'.company], 1, Len(clients[last'.company]))
                = clients[last'.company]
          /\ UNCHANGED <<packages, is_transported, ship_date>>]_vars

\* a client was added whose name was in the roster already
C9_Witness ==
    /\ last.op = "add_client"
    /\ Len(clients[last.company]) = 2
    /\ clients[last.company][2] = last.obj
    /\ name[clients[last.company][1]] = name[clients[last.company][2]]

(***************************************************************************)
(* C10: the report operations change no packages list, no roster and no    *)
(* package field, and no step other than a transport_package call changes  *)
(* what generate_report returns, so that two calls with the same arguments *)
(* and no transport_package call between them return the same.             *)
(***************************************************************************)
C10_ReportsAreQueries ==
    [][/\ last'.op \in {"generate_report", "generate_report_by_dates"}
            => UNCHANGED state
       /\ last'.op # "transport_package"
            => \A co \in Companies, d \in ReportDates :
                    generate_report(co, d)' = generate_report(co, d)
       /\ (/\ last.op = "generate_report"
           /\ last'.op = "generate_report"
           /\ last'.company = last.company
           /\ last'.dates = last.dates)
            => last'.result = last.result]_vars

\* a report was returned that counts some of the company's packages and not
\* all of them
C10_Witness ==
    /\ last.op = "generate_report"
    /\ last.result[1] >= 1
    /\ last.result[1] < Len(packages[last.company])

(***************************************************************************)
(* C11: the ship-date predicate follows the Gregorian calendar:            *)
(* "2024-02-30" is rejected, "2024-02-29" is accepted (2024 is a leap      *)
(* year), February 29 of a year that is no leap year is rejected, and a    *)
(* date is accepted exactly when its day exists in its month and year.  A  *)
(* transport_package call with a rejected date raises a ship-date error    *)
(* whatever the state of the company.                                      *)
(***************************************************************************)
C11_GregorianDates ==
    /\ ~validate_ship_date(D_2024_02_30)
    /\ validate_ship_date(D_2024_02_29)
    /\ ~validate_ship_date(D_2023_02_29)
    /\ \A c \in CalendarCases :
            validate_ship_date(c.s) <=> c.d <= GregorianDays(c.y, c.m)
    /\ (last.op = "transport_package" /\ ~CalendarValid(last.dates[1]))
        => /\ last.outcome = "raised"
           /\ last.msg = IF name[client[last.obj]] \in RosterNames(last.company)
                         THEN MsgDate
                         ELSE MsgDateAndClient(last.obj)

\* "2024-02-30" was refused for a package of a registered client after the
\* company had accepted a package on "2024-02-29"
C11_Witness ==
    /\ last.op = "transport_package"
    /\ last.dates[1] = D_2024_02_30
    /\ last.msg = MsgDate
    /\ \E i \in DOMAIN packages[last.company] :
            ship_date[packages[last.company][i]] = D_2024_02_29

(***************************************************************************)
(* C12: when the date is invalid or the client is not in the roster, the   *)
(* error raised depends on the date, the roster and the client's name      *)
(* only: it is the same for a package with origin = destination as for one *)
(* with different ones, and it is never the origin/destination error.  A   *)
(* package with origin = destination, a registered client and an invalid   *)
(* date raises "Invalid Shipping Date".                                    *)
(***************************************************************************)
C12_OriginCheckedLast ==
    LET p == last.obj
        valid == validate_ship_date(last.dates[1])
        member == name[client[p]] \in RosterNames(last.company)
    IN  (last.op = "transport_package" /\ (~valid \/ ~member))
        => /\ last.outcome = "raised"
           /\ last.msg # MsgSame
           /\ last.msg =
                IF valid THEN "Client: " \o name[client[p]] \o " is not a Client"
                ELSE IF member THEN "Invalid Shipping Date"
                ELSE "Invalid Shipping date and client: " \o name[client[p]]
                        \o " is not a Client"
           /\ (origin[p] = destination[p] /\ ~valid /\ member)
                => last.msg = "Invalid Shipping Date"

\* a package with origin = destination and a registered client was refused
\* for its date
C12_Witness ==
    /\ last.op = "transport_package"
    /\ origin[last.obj] = destination[last.obj]
    /\ name[client[last.obj]] \in RosterNames(last.company)
    /\ ~validate_ship_date(last.dates[1])
    /\ last.msg = "Invalid Shipping Date"

(***************************************************************************)
(* C13: in every step the roster and the packages list of each company     *)
(* keep their entries in place (the old list is a prefix of the new one);  *)
(* a roster changes only in an add_client call on that company, and a      *)
(* packages list only in a transport_package call on that company that     *)
(* returns, which appends the package at the end.                          *)
(***************************************************************************)
C13_ListsOnlyGrow ==
    [][\A co \in Companies :
            /\ IsPrefix(clients[co], clients'[co])
            /\ IsPrefix(packages[co], packages'[co])
            /\ clients'[co] # clients[co]
                => /\ last'.op = "add_client"
                   /\ last'.company = co
            /\ packages'[co] # packages[co]
                => /\ last'.op = "transport_package"
                   /\ last'.outcome = "returned"
                   /\ last'.company = co
                   /\ packages'[co] = Append(packages[co], last'.obj)]_vars

\* a second, different package has just been accepted by a company
C13_Witness ==
    /\ last.op = "transport_package"
    /\ last.outcome = "returned"
    /\ Len(packages[last.company]) = 2
    /\ packages[last.company][2] = last.obj
    /\ packages[last.company][1] # last.obj

(***************************************************************************)
(* C14: every ship_date of an accepted package has the fixed-width form    *)
(* YYYY-MM-DD, so that generate_report_by_dates, which compares strings,   *)
(* counts exactly the packages whose day lies in [start, end) of the       *)
(* calendar.                                                               *)
(***************************************************************************)
C14_FixedWidthDates ==
    \A co \in Companies :
        /\ \A i \in DOMAIN packages[co] :
                IsFixedWidth(ship_date[packages[co][i]])
        /\ \A s \in WideRangeDates, e \in WideRangeDates :
                generate_report_by_dates(co, s, e)[1] =
                    Cardinality(EntriesInCalendarRange(co, s, e))

(***************************************************************************)
(* C15: every entry of a company's packages list is a package that is      *)
(* transported, whose ship_date is not empty and passes the date check,    *)
(* whose origin differs from its destination and whose client's name is    *)
(* in that company's roster.                                               *)
(***************************************************************************)
C15_EntriesAreAccepted ==
    \A co \in Companies :
        \A i \in DOMAIN packages[co] :
            /\ is_transported[packages[co][i]]
            /\ ship_date[packages[co][i]] # <<>>
            /\ validate_ship_date(ship_date[packages[co][i]])
            /\ origin[packages[co][i]] # destination[packages[co][i]]
            /\ name[client[packages[co][i]]] \in RosterNames(co)

\* two companies hold the same package, which the second one accepted with
\* another date
C15_Witness ==
    /\ last.op = "transport_package"
    /\ last.outcome = "returned"
    /\ \E co \in Companies \ {last.company} :
            /\ Occurrences(last.obj, packages[co]) = 1
            /\ Occurrences(last.obj, packages[last.company]) = 1
    /\ ship_date[last.obj] = D_2024_2_1

(***************************************************************************)
(* C16: generate_report(D) on a company counts the transport_package       *)
(* calls on that company that succeeded with ship date D.  Both numbers    *)
(* start at 0, so this says that every step adds to the count for D what   *)
(* it adds to the calls: 1 when it is such a call, 0 otherwise, also when  *)
(* the package was submitted before.                                       *)
(***************************************************************************)
C16_ReportCountsCalls ==
    [][\A co \in Companies, d \in ReportDates :
            generate_report(co, d)'[1] =
                generate_report(co, d)[1]
                    + (IF /\ last'.op = "transport_package"
                          /\ last'.outcome = "returned"
                          /\ last'.company = co
                          /\ last'.dates[1] = d
                       THEN 1 ELSE 0)]_vars

(***************************************************************************)
(* C17: an add_client or transport_package call on one company changes no  *)
(* result of generate_report or generate_report_by_dates on another        *)
(* company, also when both companies have accepted the same package.       *)
(***************************************************************************)
C17_CompaniesAreIsolated ==
    [][last'.op \in {"add_client", "transport_package"}
       => \A co \in Companies \ {last'.company} :
            /\ \A d \in ReportDates :
                    generate_report(co, d)' = generate_report(co, d)
            /\ \A s \in RangeDates, e \in RangeDates :
                    generate_report_by_dates(co, s, e)' =
                        generate_report_by_dates(co, s, e)]_vars

(***************************************************************************)
(* C18: for strings S <= M <= E the counts of generate_report_by_dates(S,  *)
(* M) and generate_report_by_dates(M, E) add up to the count of            *)
(* generate_report_by_dates(S, E), and for S <= D < E the count of         *)
(* generate_report(D) is at most that of generate_report_by_dates(S, E).   *)
(***************************************************************************)
C18_RangesAreAdditive ==
    \A co \in Companies :
        /\ \A s \in WideRangeDates, m \in WideRangeDates, e \in WideRangeDates :
                (LexLessEq(s, m) /\ LexLessEq(m, e))
                => generate_report_by_dates(co, s, m)[1]
                        + generate_report_by_dates(co, m, e)[1]
                    = generate_report_by_dates(co, s, e)[1]
        /\ \A s \in WideRangeDates, e \in WideRangeDates, d \in ReportDates :
                (LexLessEq(s, d) /\ LexLess(d, e))
                => generate_report(co, d)[1]
                    <= generate_report_by_dates(co, s, e)[1]

\* a range report counted two packages, one shipped before a date strictly
\* inside the range and one shipped on it
C18_Witness ==
    /\ last.op = "generate_report_by_dates"
    /\ last.result[1] = 2
    /\ \E m \in WideRangeDates :
            /\ LexLess(last.dates[1], m)
            /\ LexLess(m, last.dates[2])
            /\ generate_report_by_dates(last.company, last.dates[1], m)[1] = 1
            /\ generate_report_by_dates(last.company, m, last.dates[2])[1] = 1
            /\ generate_report(last.company, m)[1] = 1

====
